---- MODULE Spec2Model ----
(***************************************************************************)
(* Model of the two file-management scripts                               *)
(*   deduplicate_keep_newest_in_place.py  (pipeline A, "dedup")           *)
(*   move_unique_from_older.py            (pipeline B, "mover")           *)
(* over an explicit filesystem: a function from absolute paths to         *)
(* entries.  A path is a sequence of names, a name a sequence of          *)
(* characters, so that ' (n)' disambiguation, path length and             *)
(* lexicographic order are computed, not assumed.                         *)
(***************************************************************************)
EXTENDS Integers, Sequences, FiniteSets, TLC

VARIABLES
    fs,            \* the filesystem: [existing paths -> entries]
    fs0,           \* the filesystem when the current run started
    prog,          \* which script runs: "dedup" | "mover" | "select"
    pc,            \* position of the run inside main()
    cfg,           \* the parsed command line of the run
    actions,       \* dedup: List[(src, dst)] built by main()
    kept,          \* dedup: survivors kept in place
    main_hashes,   \* mover: digests found in the current tree
    moves_regular, \* mover: planned moves of regular files
    moves_syms,    \* mover: planned moves of symbolic links
    idx,           \* index of the next move of the running loop
    run,           \* number of the run (1 = first)
    exit_code,     \* process exit status once it ended (-1 while running)
    move_errors,   \* number of moves whose exception was caught so far
    rmdir_errors,  \* number of rmdir calls whose exception was caught
    paths,         \* select: one duplicate group, in walk order
    newest         \* select: the survivor chosen for `paths`

vars == <<fs, fs0, prog, pc, cfg, actions, kept, main_hashes, moves_regular,
          moves_syms, idx, run, exit_code, move_errors, rmdir_errors,
          paths, newest>>

-----------------------------------------------------------------------------
(* Bounds of the model *)

\* modification times are drawn from 0..MaxMtime ticks (one tick = 0.5 us)
MaxMtime == 2
\* longest chain of symbolic links followed before giving up (ELOOP)
MaxLinkHops == 3
\* the dedup script is run at most MaxRuns times in a row on the same tree
MaxRuns == 2
\* at most MaxRaised moves in all raise for a reason outside the model
MaxRaised == 1

\* 1e-6 seconds, the tie window of the survivor choice, in ticks
EPS_TICKS == 2
\* mtime() returns -1.0 (seconds) when stat fails, in ticks
MTIME_ERR == -2000000

-----------------------------------------------------------------------------
(* Strings: sequences of one-character strings, compared by code point *)

Ord(c) ==
    CASE c = " " -> 32 [] c = "(" -> 40 [] c = ")" -> 41 [] c = "." -> 46
      [] c = "/" -> 47 [] c = "0" -> 48 [] c = "1" -> 49 [] c = "2" -> 50
      [] c = "3" -> 51 [] c = "4" -> 52 [] c = "5" -> 53 [] c = "6" -> 54
      [] c = "7" -> 55 [] c = "8" -> 56 [] c = "9" -> 57 [] c = "D" -> 68
      [] c = "a" -> 97 [] c = "b" -> 98 [] c = "c" -> 99 [] c = "d" -> 100
      [] c = "e" -> 101 [] c = "f" -> 102 [] c = "i" -> 105 [] c = "k" -> 107
      [] c = "l" -> 108 [] c = "m" -> 109 [] c = "n" -> 110 [] c = "o" -> 111
      [] c = "p" -> 112 [] c = "r" -> 114 [] c = "s" -> 115 [] c = "t" -> 116
      [] c = "u" -> 117 [] c = "x" -> 120 [] c = "y" -> 121 [] c = "z" -> 122

DigitChar(d) ==
    CASE d = 0 -> "0" [] d = 1 -> "1" [] d = 2 -> "2" [] d = 3 -> "3"
      [] d = 4 -> "4" [] d = 5 -> "5" [] d = 6 -> "6" [] d = 7 -> "7"
      [] d = 8 -> "8" [] d = 9 -> "9"

\* str(n) of a non-negative integer
RECURSIVE DecStr(_)
DecStr(n) ==
    IF n < 10 THEN <<DigitChar(n)>>
    ELSE DecStr(n \div 10) \o <<DigitChar(n % 10)>>

\* s < t for Python strings
RECURSIVE StrLess(_, _)
StrLess(s, t) ==
    IF t = <<>> THEN FALSE
    ELSE IF s = <<>> THEN TRUE
    ELSE IF Head(s) = Head(t) THEN StrLess(Tail(s), Tail(t))
    ELSE Ord(Head(s)) < Ord(Head(t))

\* str(p) of an absolute path: "/" before every name
RECURSIVE PathStr(_)
PathStr(p) ==
    IF p = <<>> THEN <<>> ELSE <<"/">> \o Head(p) \o PathStr(Tail(p))

\* the sort key (len(str(p)), str(p)) of the tie-break, as an order
KeyLess(p, q) ==
    LET s == PathStr(p)
        t == PathStr(q)
    IN  Len(s) < Len(t) \/ (Len(s) = Len(t) /\ StrLess(s, t))

-----------------------------------------------------------------------------
(* pathlib: parent, name, stem, suffix, relative_to *)

Parent(p) == SubSeq(p, 1, Len(p) - 1)
BaseName(p) == p[Len(p)]

IsPrefix(r, p) == Len(r) <= Len(p) /\ SubSeq(p, 1, Len(r)) = r
\* p.relative_to(r), defined when IsPrefix(r, p)
RelativeTo(p, r) == SubSeq(p, Len(r) + 1, Len(p))

\* name.rfind('.') as a 1-based index, 0 when there is no dot
LastDot(name) ==
    LET dots == {i \in 1..Len(name) : name[i] = "."}
    IN  IF dots = {} THEN 0 ELSE CHOOSE i \in dots : \A j \in dots : j <= i

\* PurePath.suffix: the last dot counts when it is neither first nor last
HasSuffix(name) == LET i == LastDot(name) IN 1 < i /\ i < Len(name)
Suffix(name) ==
    IF HasSuffix(name) THEN SubSeq(name, LastDot(name), Len(name)) ELSE <<>>
Stem(name) ==
    IF HasSuffix(name) THEN SubSeq(name, 1, LastDot(name) - 1) ELSE name

\* f"{stem} ({n}){suffix}"
Disambiguated(stem, n, suffix) ==
    stem \o <<" ", "(">> \o DecStr(n) \o <<")">> \o suffix

-----------------------------------------------------------------------------
(* Filesystem entries and the system calls the scripts use *)

DirEntry == [kind |-> "dir", id |-> 0, digest |-> "", mtime |-> 0, target |-> <<>>]
FileEntry(i, d, m) ==
    [kind |-> "file", id |-> i, digest |-> d, mtime |-> m, target |-> <<>>]
LinkEntry(i, t) ==
    [kind |-> "link", id |-> i, digest |-> "", mtime |-> 0, target |-> t]
NoEntry == [kind |-> "none", id |-> 0, digest |-> "", mtime |-> 0, target |-> <<>>]

Put(f, p, e) == [q \in DOMAIN f \cup {p} |-> IF q = p THEN e ELSE f[q]]
Del(f, p) == [q \in DOMAIN f \ {p} |-> f[q]]

\* lstat: the entry at p itself, links not followed ("/" is always a directory)
LStat(f, p) ==
    IF p = <<>> THEN DirEntry ELSE IF p \in DOMAIN f THEN f[p] ELSE NoEntry

\* the path p stands for once the links it names are followed
RECURSIVE Follow(_, _, _)
Follow(f, p, hops) ==
    IF LStat(f, p).kind = "link" /\ hops > 0
    THEN Follow(f, f[p].target, hops - 1)
    ELSE p
\* Path.resolve()
Resolve(f, p) == Follow(f, p, MaxLinkHops)

\* stat: the entry p leads to, NoEntry for a missing path, a dangling link or a loop
Stat(f, p) ==
    LET e == LStat(f, Resolve(f, p))
    IN  IF e.kind = "link" THEN NoEntry ELSE e

Exists(f, p) == Stat(f, p).kind # "none"
IsFile(f, p) == Stat(f, p).kind = "file"
IsDir(f, p) == Stat(f, p).kind = "dir"
IsSymlink(f, p) == LStat(f, p).kind = "link"

\* the entries directly inside directory d (Path.iterdir, os.scandir)
Children(f, d) == {q \in DOMAIN f : Len(q) = Len(d) + 1 /\ IsPrefix(d, q)}

\* Path.mkdir(parents=True, exist_ok=True): [ok, fs]; it raises, creating nothing,
\* when the deepest existing ancestor (or the path itself) is not a directory
RECURSIVE MkdirP(_, _)
MkdirP(f, p) ==
    IF LStat(f, p).kind # "none"
    THEN [ok |-> IsDir(f, p), fs |-> f]
    ELSE LET up == MkdirP(f, Parent(p))
         IN  IF up.ok THEN [ok |-> TRUE, fs |-> Put(up.fs, p, DirEntry)]
             ELSE [ok |-> FALSE, fs |-> f]

\* os.rename(src, dst) of a non-directory on POSIX: an existing non-directory at
\* dst is replaced
Rename(f, src, dst) ==
    IF LStat(f, src).kind = "none" \/ LStat(f, Parent(dst)).kind # "dir"
       \/ LStat(f, dst).kind = "dir"
    THEN [ok |-> FALSE, fs |-> f]
    ELSE IF src = dst THEN [ok |-> TRUE, fs |-> f]
    ELSE [ok |-> TRUE, fs |-> Put(Del(f, src), dst, f[src])]

\* shutil.move(src, dst) on one device: into dst when dst is a directory,
\* otherwise a rename
ShutilMove(f, src, dst) ==
    IF IsDir(f, dst)
    THEN LET real_dst == Resolve(f, dst) \o <<BaseName(src)>>
         IN  IF Exists(f, real_dst) THEN [ok |-> FALSE, fs |-> f]
             ELSE Rename(f, src, real_dst)
    ELSE Rename(f, src, dst)

-----------------------------------------------------------------------------
(* Directory walks.  The order in which a directory lists its entries is     *)
(* not specified, so a walk is a set of possible sequences.                  *)

RECURSIVE Perms(_)
Perms(S) ==
    IF S = {} THEN {<<>>}
    ELSE UNION {{<<x>> \o s : s \in Perms(S \ {x})} : x \in S}

\* os.walk(top, followlinks=False), top-down, with the dirnames[:] filter of
\* main(): the non-directory entries in the order they are produced.  A
\* directory's own entries come first, then each walked subdirectory in turn.
RECURSIVE OsWalkFiles(_, _, _)
RECURSIVE OsWalkSubdirs(_, _, _)
OsWalkFiles(f, dir, skip) ==
    LET dirnames == {q \in Children(f, dir) : IsDir(f, q)}
        filenames == Children(f, dir) \ dirnames
        walked == {q \in dirnames :
                     ~IsSymlink(f, q) /\ Resolve(f, q) # Resolve(f, skip)}
    IN  {a \o b : a \in Perms(filenames), b \in OsWalkSubdirs(f, walked, skip)}
OsWalkSubdirs(f, dirs, skip) ==
    IF dirs = {} THEN {<<>>}
    ELSE UNION {{a \o b : a \in OsWalkFiles(f, d, skip),
                          b \in OsWalkSubdirs(f, dirs \ {d}, skip)} : d \in dirs}

\* the directories os.walk(root, topdown=False) visits: root and every real
\* directory below it (links to directories are listed but not entered)
WalkedDirs(f, root) ==
    {root} \cup {q \in DOMAIN f : IsPrefix(root, q) /\ f[q].kind = "dir"}

-----------------------------------------------------------------------------
(* deduplicate_keep_newest_in_place.py *)

DUPLICATES_NAME == <<"D", "u", "p", "l", "i", "k", "a", "t", "y">>
DuplicatesDir(main_dir) == main_dir \o <<DUPLICATES_NAME>>

\* sha256_of_file: the digest of the bytes open() reaches, through links
Sha256OfFile(f, p) == Stat(f, p).digest

\* unique_destination(base_dir, filename)
RECURSIVE UniqueDestinationFrom(_, _, _, _)
UniqueDestinationFrom(f, base_dir, filename, i) ==
    LET candidate ==
            base_dir \o <<Disambiguated(Stem(filename), i, Suffix(filename))>>
    IN  IF ~Exists(f, candidate) THEN candidate
        ELSE UniqueDestinationFrom(f, base_dir, filename, i + 1)
UniqueDestination(f, base_dir, filename) ==
    IF ~Exists(f, base_dir \o <<filename>>) THEN base_dir \o <<filename>>
    ELSE UniqueDestinationFrom(f, base_dir, filename, 1)

\* the files list of main(): the walked names for which p.is_file() holds
ScannedFiles(walk, f) == SelectSeq(walk, LAMBDA p : IsFile(f, p))

\* by_hash.setdefault(file_hash, []).append(fpath) over the files, as the
\* list of (hash, paths) in insertion order
RECURSIVE ByHash(_, _, _)
ByHash(f, files, acc) ==
    IF files = <<>> THEN acc
    ELSE LET p == Head(files)
             h == Sha256OfFile(f, p)
             at == {i \in 1..Len(acc) : acc[i].hash = h}
         IN  IF at = {}
             THEN ByHash(f, Tail(files),
                         Append(acc, [hash |-> h, paths |-> <<p>>]))
             ELSE ByHash(f, Tail(files),
                         [acc EXCEPT ![CHOOSE i \in at : TRUE].paths =
                                          Append(@, p)])

\* mtime(p) of main()
MtimeOf(f, p) == IF Stat(f, p).kind = "none" THEN MTIME_ERR ELSE Stat(f, p).mtime

Abs(x) == IF x < 0 THEN -x ELSE x

\* max(paths, key=mtime): the first member holding the largest key
MaxByMtime(f, ps) ==
    ps[CHOOSE i \in 1..Len(ps) :
          /\ \A j \in 1..Len(ps) : MtimeOf(f, ps[j]) <= MtimeOf(f, ps[i])
          /\ \A j \in 1..(i - 1) : MtimeOf(f, ps[j]) < MtimeOf(f, ps[i])]

\* mutant: only the members with exactly the largest mtime are tied
TiesExact(f, ps) ==
    LET max_m == MtimeOf(f, MaxByMtime(f, ps))
    IN  SelectSeq(ps, LAMBDA p : MtimeOf(f, p) = max_m)

\* the members main() treats as tied with the newest one
Ties(f, ps) ==
    LET max_m == MtimeOf(f, MaxByMtime(f, ps))
    IN  SelectSeq(ps, LAMBDA p : Abs(MtimeOf(f, p) - max_m) < EPS_TICKS)

\* sorted(ties, key=lambda p: (len(str(p)), str(p)))[0]
FirstByKey(ties) ==
    ties[CHOOSE i \in 1..Len(ties) :
            \A j \in 1..Len(ties) : j = i \/ KeyLess(ties[i], ties[j])
                                    \/ (ties[j] = ties[i] /\ i < j)]

\* the survivor of one group of main()
Newest(f, ps) ==
    IF Len(Ties(f, ps)) > 1 THEN FirstByKey(Ties(f, ps)) ELSE MaxByMtime(f, ps)

\* one iteration of "for p in paths" for a member other than the survivor;
\* st = [fs, actions, crashed].  relative_to raises ValueError and mkdir raises
\* FileExistsError outside any try block: main() ends there with a traceback.
PlanDuplicate(st, main_dir, dry_run, p) ==
    LET rp == Resolve(st.fs, p)
        dup == DuplicatesDir(main_dir)
    IN  IF st.crashed THEN st
        ELSE IF ~IsPrefix(main_dir, rp) THEN [st EXCEPT !.crashed = TRUE]
        ELSE LET rel == RelativeTo(rp, main_dir)
                 dst_parent == Parent(dup \o rel)
                 mk == IF dry_run THEN [ok |-> TRUE, fs |-> st.fs]
                       ELSE MkdirP(st.fs, dst_parent)
                 dst_final ==
                     IF Exists(mk.fs, dup \o rel)
                     THEN UniqueDestination(mk.fs, dst_parent, BaseName(p))
                     ELSE dup \o rel
             IN  IF ~mk.ok THEN [st EXCEPT !.crashed = TRUE]
                 ELSE [fs |-> mk.fs,
                       actions |-> Append(st.actions, <<p, dst_final>>),
                       crashed |-> FALSE]

RECURSIVE PlanMembers(_, _, _, _, _)
PlanMembers(st, main_dir, dry_run, ps, keep) ==
    IF ps = <<>> THEN st
    ELSE PlanMembers(IF Head(ps) = keep THEN st
                     ELSE PlanDuplicate(st, main_dir, dry_run, Head(ps)),
                     main_dir, dry_run, Tail(ps), keep)

\* "for file_hash, paths in by_hash.items()": st additionally carries kept
RECURSIVE PlanGroups(_, _, _, _)
PlanGroups(st, main_dir, dry_run, groups) ==
    IF groups = <<>> \/ st.crashed THEN st
    ELSE LET ps == Head(groups).paths
         IN  IF Len(ps) = 1
             THEN PlanGroups([st EXCEPT !.kept = Append(@, ps[1])],
                             main_dir, dry_run, Tail(groups))
             ELSE LET keep == Newest(st.fs, ps)
                      r == PlanMembers([fs |-> st.fs, actions |-> st.actions,
                                        crashed |-> FALSE],
                                       main_dir, dry_run, ps, keep)
                  IN  PlanGroups([fs |-> r.fs, actions |-> r.actions,
                                  crashed |-> r.crashed,
                                  kept |-> Append(st.kept, keep)],
                                 main_dir, dry_run, Tail(groups))

\* remove_empty_dirs(root, keep) of the dedup script: bottom-up, emptiness
\* tested when the directory is reached; rmdir raises for the directories in
\* deny, which is caught and reported.  Result [fs, errors].
RECURSIVE DedupRemoveLevel(_, _, _, _, _)
DedupRemoveLevel(st, root, keep, deny, depth) ==
    IF depth <= Len(root) THEN st
    ELSE LET f == st.fs
             here == {p \in WalkedDirs(f, root) : Len(p) = depth}
             cand == {p \in here :
                        /\ p # root
                        /\ \A k \in keep : Resolve(f, p) # Resolve(f, k)
                        /\ Children(f, p) = {}}
             gone == cand \ deny
         IN  DedupRemoveLevel(
                 [fs |-> [q \in DOMAIN f \ gone |-> f[q]],
                  errors |-> st.errors + Cardinality(cand \cap deny)],
                 root, keep, deny, depth - 1)

MaxDepth(f) == IF DOMAIN f = {} THEN 0
               ELSE CHOOSE n \in {Len(p) : p \in DOMAIN f} :
                        \A p \in DOMAIN f : Len(p) <= n

\* the same pass with emptiness tested once, before anything is removed
DedupRemoveEmptyDirsSnapshot(f, root, keep, deny) ==
    LET cand == {p \in WalkedDirs(f, root) :
                   /\ p # root
                   /\ \A k \in keep : Resolve(f, p) # Resolve(f, k)
                   /\ Children(f, p) = {}}
    IN  [fs |-> [q \in DOMAIN f \ (cand \ deny) |-> f[q]],
         errors |-> Cardinality(cand \cap deny)]

DedupRemoveEmptyDirs(f, root, keep, deny) ==
    DedupRemoveLevel([fs |-> f, errors |-> 0], root, keep, deny, MaxDepth(f))

-----------------------------------------------------------------------------
(* The dedup script's main(), one action per stage *)

NoConfig == [main_dir |-> <<>>, dry_run |-> FALSE]

\* lines 62-69: the root check (exit 1) and duplicates_dir.mkdir(exist_ok=True)
DedupStart ==
    /\ prog = "dedup" /\ pc = "start"
    /\ IF ~Exists(fs, cfg.main_dir) \/ ~IsDir(fs, cfg.main_dir)
       THEN /\ pc' = "exit" /\ exit_code' = 1 /\ fs' = fs
       ELSE IF cfg.dry_run
       THEN /\ pc' = "scan" /\ fs' = fs /\ UNCHANGED exit_code
       ELSE IF LStat(fs, DuplicatesDir(cfg.main_dir)).kind = "none"
       THEN /\ pc' = "scan" /\ UNCHANGED exit_code
            /\ fs' = Put(fs, DuplicatesDir(cfg.main_dir), DirEntry)
       ELSE IF IsDir(fs, DuplicatesDir(cfg.main_dir))
       THEN /\ pc' = "scan" /\ fs' = fs /\ UNCHANGED exit_code
       ELSE /\ pc' = "crashed" /\ exit_code' = 1 /\ fs' = fs
    /\ UNCHANGED <<fs0, prog, cfg, actions, kept, main_hashes, moves_regular,
                   moves_syms, idx, run, move_errors, rmdir_errors, paths,
                   newest>>

\* lines 71-139: walk, hash, group, choose the survivors, plan the moves
DedupPlan ==
    /\ prog = "dedup" /\ pc = "scan"
    /\ \E walk \in OsWalkFiles(fs, cfg.main_dir, DuplicatesDir(cfg.main_dir)) :
         LET files == ScannedFiles(walk, fs)
             by_hash == ByHash(fs, files, <<>>)
             r == PlanGroups([fs |-> fs, actions |-> <<>>, crashed |-> FALSE,
                              kept |-> <<>>],
                             cfg.main_dir, cfg.dry_run, by_hash)
         IN  /\ fs' = r.fs
             /\ actions' = r.actions
             /\ kept' = r.kept
             /\ pc' = IF r.crashed THEN "crashed" ELSE "move"
             /\ exit_code' = IF r.crashed THEN 1 ELSE exit_code
    /\ idx' = 1
    /\ UNCHANGED <<fs0, prog, cfg, main_hashes, moves_regular, moves_syms, run,
                   move_errors, rmdir_errors, paths, newest>>

\* the body of the try of one relocation: the parent chain, then the move;
\* [ok, fs], ok FALSE when either raised
TryMove(f, src, dst) ==
    LET mk == MkdirP(f, Parent(dst))
    IN  IF mk.ok THEN ShutilMove(mk.fs, src, dst) ELSE mk

\* lines 148-155: one iteration of "for src, dst in actions".  The move may
\* also raise for a reason outside the model (permissions, I/O): raised.
DedupMove ==
    /\ prog = "dedup" /\ pc = "move" /\ idx <= Len(actions)
    /\ idx' = idx + 1
    /\ IF cfg.dry_run
       THEN UNCHANGED <<fs, move_errors>>
       ELSE \E raised \in {FALSE} \cup {move_errors < MaxRaised} :
              LET src == actions[idx][1]
                  dst == actions[idx][2]
                  r == IF raised THEN [ok |-> FALSE, fs |-> MkdirP(fs, Parent(dst)).fs]
                       ELSE TryMove(fs, src, dst)
              IN  /\ fs' = r.fs
                  /\ move_errors' = IF r.ok THEN move_errors ELSE move_errors + 1
    /\ UNCHANGED <<fs0, prog, pc, cfg, actions, kept, main_hashes, moves_regular,
                   moves_syms, run, exit_code, rmdir_errors, paths, newest>>

\* the directories below root that hold nothing
EmptyDirs(f, root) ==
    {d \in WalkedDirs(f, root) \ {root} : Children(f, d) = {}}

\* lines 157-161: remove_empty_dirs(main_dir, keep=[duplicates_dir]) unless
\* dry-run; at most one rmdir is made to raise
DedupReclaim ==
    /\ prog = "dedup" /\ pc = "move" /\ idx > Len(actions)
    /\ IF cfg.dry_run
       THEN UNCHANGED <<fs, rmdir_errors>>
       ELSE \E deny \in {{}} \cup {{d} : d \in EmptyDirs(fs, cfg.main_dir)} :
              LET r == DedupRemoveEmptyDirs(fs, cfg.main_dir,
                                            {DuplicatesDir(cfg.main_dir)}, deny)
              IN  /\ fs' = r.fs
                  /\ rmdir_errors' = rmdir_errors + r.errors
    /\ pc' = "done"
    /\ exit_code' = 0
    /\ UNCHANGED <<fs0, prog, cfg, actions, kept, main_hashes, moves_regular,
                   moves_syms, idx, run, move_errors, paths, newest>>

\* the script is started again on the same tree with the same arguments
DedupAgain ==
    /\ prog = "dedup" /\ pc = "done" /\ run < MaxRuns
    /\ run' = run + 1
    /\ pc' = "start"
    /\ fs0' = fs
    /\ actions' = <<>> /\ kept' = <<>> /\ idx' = 1
    /\ exit_code' = -1
    /\ UNCHANGED <<fs, prog, cfg, main_hashes, moves_regular, moves_syms,
                   move_errors, rmdir_errors, paths, newest>>

-----------------------------------------------------------------------------
(* The trees the dedup script is started on *)

ROOT == <<<<"r">>>>
N_a == <<"a", ".", "t">>
N_a1 == <<"a", " ", "(", "1", ")", ".", "t">>
N_b == <<"b", ".", "t">>
N_d == <<"d">>
N_l == <<"l">>
OUTSIDE == <<<<"x">>>>
Digests == {"A", "B"}
Mtimes == 0..MaxMtime

\* a filesystem from a set of <<path, entry>> pairs, entries of kind "none" left out
MkFs(S) ==
    LET T == {s \in S : s[2].kind # "none"}
    IN  [p \in {s[1] : s \in T} |-> (CHOOSE s \in T : s[1] = p)[2]]

FileOpts(i, D, M) == {NoEntry} \cup {FileEntry(i, d, m) : d \in D, m \in M}

\* what the quarantine directory holds before the first run
QuarantineOpts ==
    LET dup == DuplicatesDir(ROOT)
    IN  { {},
          {<<dup, DirEntry>>},
          {<<dup, DirEntry>>, <<dup \o <<N_a>>, FileEntry(6, "B", 0)>>},
          {<<dup, DirEntry>>, <<dup \o <<N_a>>, FileEntry(6, "B", 0)>>,
           <<dup \o <<N_a1>>, FileEntry(7, "B", 0)>>} }

\* r/l: absent, or a link to a file of the tree, to a file of the quarantine
\* directory, or to a file outside the tree
LinkOpts ==
    {NoEntry, LinkEntry(5, ROOT \o <<N_a>>),
     LinkEntry(5, DuplicatesDir(ROOT) \o <<N_a>>),
     LinkEntry(5, OUTSIDE \o <<<<"f">>>>)}

DedupTrees ==
    { MkFs({<<ROOT, DirEntry>>,
            <<ROOT \o <<<<"c">>>>, DirEntry>>,
            <<ROOT \o <<<<"c">>, <<"e">>>>, DirEntry>>,
            <<OUTSIDE, DirEntry>>,
            <<OUTSIDE \o <<<<"f">>>>, FileEntry(8, "A", 0)>>,
            <<ROOT \o <<N_a>>, ea>>,
            <<ROOT \o <<N_a1>>, ea1>>,
            <<ROOT \o <<N_d>>, IF eda.kind = "none" THEN NoEntry ELSE DirEntry>>,
            <<ROOT \o <<N_d, N_a>>, eda>>,
            <<ROOT \o <<N_l>>, el>>} \cup q) :
        ea \in FileOpts(1, Digests, Mtimes),
        ea1 \in FileOpts(2, {"A"}, {0}),
        eda \in FileOpts(4, Digests, {MaxMtime}),
        el \in LinkOpts,
        q \in QuarantineOpts }

InitDedup ==
    /\ prog = "dedup"
    /\ pc = "start"
    /\ \/ /\ fs \in DedupTrees
          /\ cfg \in {[main_dir |-> ROOT, dry_run |-> d] : d \in BOOLEAN}
       \/ /\ fs = MkFs({<<ROOT, DirEntry>>, <<ROOT \o <<N_a>>, FileEntry(1, "A", 0)>>})
          /\ cfg \in {[main_dir |-> m, dry_run |-> FALSE] :
                        m \in {ROOT \o <<N_a>>, ROOT \o <<N_b>>}}
    /\ fs0 = fs
    /\ actions = <<>> /\ kept = <<>>
    /\ main_hashes = {} /\ moves_regular = <<>> /\ moves_syms = <<>>
    /\ idx = 1 /\ run = 1 /\ exit_code = -1
    /\ move_errors = 0 /\ rmdir_errors = 0
    /\ paths = <<>> /\ newest = <<>>

NextDedup == DedupStart \/ DedupPlan \/ DedupMove \/ DedupReclaim \/ DedupAgain

SpecDedup == InitDedup /\ [][NextDedup]_vars

-----------------------------------------------------------------------------
(* move_unique_from_older.py *)

\* file_hash(path, algo)
FileHash(f, p) == Stat(f, p).digest

\* unique_destination_path(dest_path)
RECURSIVE UniqueDestinationPathFrom(_, _, _)
UniqueDestinationPathFrom(f, dest_path, n) ==
    LET candidate ==
            Parent(dest_path) \o
            <<Disambiguated(Stem(BaseName(dest_path)), n, Suffix(BaseName(dest_path)))>>
    IN  IF ~Exists(f, candidate) THEN candidate
        ELSE UniqueDestinationPathFrom(f, dest_path, n + 1)
UniqueDestinationPath(f, dest_path) ==
    IF ~Exists(f, dest_path) THEN dest_path
    ELSE UniqueDestinationPathFrom(f, dest_path, 1)

\* is_subpath(path, potential_parent)
IsSubpath(f, path, potential_parent) ==
    IsPrefix(Resolve(f, potential_parent), Resolve(f, path))

\* iter_paths(root) = root.rglob("*"): a directory's entries, then each real
\* subdirectory in turn; links to directories are yielded, never entered.
\* Directories themselves are yielded too but neither loop acts on them, so
\* the sequences hold the files and links only.
RECURSIVE IterPaths(_, _)
RECURSIVE IterPathsIn(_, _)
IterPaths(f, root) ==
    LET subdirs == {q \in Children(f, root) : LStat(f, q).kind = "dir"}
        others == Children(f, root) \ subdirs
    IN  {a \o b : a \in Perms(others), b \in IterPathsIn(f, subdirs)}
IterPathsIn(f, dirs) ==
    IF dirs = {} THEN {<<>>}
    ELSE UNION {{a \o b : a \in IterPaths(f, d),
                          b \in IterPathsIn(f, dirs \ {d})} : d \in dirs}

\* mutant: links to files are hashed too
BuildHashSetWithLinks(f, main_root) ==
    {FileHash(f, p) : p \in {q \in DOMAIN f :
        IsPrefix(main_root, q) /\ q # main_root /\ IsFile(f, q)}}

\* build_hash_set(main_root, logger, algo); the walk order does not matter
BuildHashSet(f, main_root) ==
    {FileHash(f, p) : p \in {q \in DOMAIN f :
        /\ IsPrefix(main_root, q) /\ q # main_root
        /\ ~IsSymlink(f, q) /\ IsFile(f, q)
        /\ \A k \in (Len(main_root) + 1)..(Len(q) - 1) :
              LStat(f, SubSeq(q, 1, k)).kind = "dir"}}

\* plan_moves: the loop over iter_paths(older_root); pl = [regular, syms]
RECURSIVE PlanMoves(_, _, _, _, _, _, _)
PlanMoves(f, hashes, older_root, dest_root, symlinks_dest, walk, pl) ==
    IF walk = <<>> THEN pl
    ELSE LET p == Head(walk)
             rel == RelativeTo(p, older_root)
             nxt ==
               IF IsSymlink(f, p)
               THEN [pl EXCEPT !.syms = Append(@,
                        <<p, UniqueDestinationPath(f, symlinks_dest \o rel)>>)]
               ELSE IF IsFile(f, p) /\ FileHash(f, p) \notin hashes
               THEN [pl EXCEPT !.regular = Append(@,
                        <<p, UniqueDestinationPath(f, dest_root \o rel)>>)]
               ELSE pl
         IN  PlanMoves(f, hashes, older_root, dest_root, symlinks_dest,
                       Tail(walk), nxt)

\* remove_empty_dirs(older_root, logger): every walked directory but the
\* root itself, deepest first, emptiness tested when it is reached
RECURSIVE MoverRemoveLevel(_, _, _, _)
MoverRemoveLevel(st, older_root, deny, depth) ==
    IF depth <= Len(older_root) THEN st
    ELSE LET f == st.fs
             here == {p \in WalkedDirs(f, older_root) : Len(p) = depth}
             cand == {p \in here :
                        /\ Resolve(f, p) # Resolve(f, older_root)
                        /\ Children(f, p) = {}}
             gone == cand \ deny
         IN  MoverRemoveLevel(
                 [fs |-> [q \in DOMAIN f \ gone |-> f[q]],
                  errors |-> st.errors + Cardinality(cand \cap deny)],
                 older_root, deny, depth - 1)

MoverRemoveEmptyDirs(f, older_root, deny) ==
    MoverRemoveLevel([fs |-> f, errors |-> 0], older_root, deny, MaxDepth(f))

-----------------------------------------------------------------------------
(* The mover script's main(), one action per stage *)

\* lines 299-321: validation.  The two destination roots are created between
\* the existence checks and the remaining checks.
MoverStart ==
    /\ prog = "mover" /\ pc = "start"
    /\ LET bad_root == \E p \in {cfg.main_root, cfg.older_root} :
                          ~Exists(fs, p) \/ ~IsDir(fs, p)
           mk1 == MkdirP(fs, cfg.dest_root)
           mk2 == MkdirP(mk1.fs, cfg.symlinks_dest)
       IN  IF bad_root
           THEN /\ pc' = "exit" /\ exit_code' = 2 /\ fs' = fs
           ELSE IF ~mk1.ok
           THEN /\ pc' = "crashed" /\ exit_code' = 1 /\ fs' = fs
           ELSE IF ~mk2.ok
           THEN /\ pc' = "crashed" /\ exit_code' = 1 /\ fs' = mk1.fs
           ELSE /\ fs' = mk2.fs
                /\ IF \/ Resolve(mk2.fs, cfg.main_root) = Resolve(mk2.fs, cfg.older_root)
                      \/ \E t \in {cfg.dest_root, cfg.symlinks_dest} :
                            IsSubpath(mk2.fs, t, cfg.main_root)
                   THEN pc' = "exit" /\ exit_code' = 2
                   ELSE pc' = "scan" /\ UNCHANGED exit_code
    /\ UNCHANGED <<fs0, prog, cfg, actions, kept, main_hashes, moves_regular,
                   moves_syms, idx, run, move_errors, rmdir_errors, paths,
                   newest>>

\* lines 329-355: build_hash_set, plan_moves, and the return of a dry run
MoverPlan ==
    /\ prog = "mover" /\ pc = "scan"
    /\ \E walk \in IterPaths(fs, cfg.older_root) :
         LET hashes == BuildHashSet(fs, cfg.main_root)
             pl == PlanMoves(fs, hashes, cfg.older_root, cfg.dest_root,
                             cfg.symlinks_dest, walk,
                             [regular |-> <<>>, syms |-> <<>>])
         IN  /\ main_hashes' = hashes
             /\ moves_regular' = pl.regular
             /\ moves_syms' = pl.syms
    /\ idx' = 1
    /\ IF cfg.apply THEN pc' = "move" /\ UNCHANGED exit_code
       ELSE pc' = "done" /\ exit_code' = 0
    /\ UNCHANGED <<fs, fs0, prog, cfg, actions, kept, run, move_errors,
                   rmdir_errors, paths, newest>>

\* ensure_parent_dir(path)
EnsureParentDir(f, path) == MkdirP(f, Parent(path))

\* the body of the try of one relocation of the mover: [ok, fs]
MoverTryMove(f, src, dst) ==
    LET mk == EnsureParentDir(f, dst)
    IN  IF mk.ok THEN ShutilMove(mk.fs, src, dst) ELSE mk

\* one iteration of a relocation loop of main() on the pair <<src, dst>>; the
\* move may also raise for a reason outside the model: raised
MoverMoveStep(src, dst) ==
    /\ idx' = idx + 1
    /\ \E raised \in {FALSE} \cup {move_errors < MaxRaised} :
         LET r == IF raised THEN [ok |-> FALSE, fs |-> EnsureParentDir(fs, dst).fs]
                  ELSE MoverTryMove(fs, src, dst)
         IN  /\ fs' = r.fs
             /\ move_errors' = IF r.ok THEN move_errors ELSE move_errors + 1
    /\ UNCHANGED <<fs0, prog, pc, cfg, actions, kept, main_hashes, moves_regular,
                   moves_syms, run, exit_code, rmdir_errors, paths, newest>>

\* lines 363-370: "for i, (src, dst) in enumerate(moves_regular, 1)"
MoverMoveRegular ==
    /\ prog = "mover" /\ pc = "move" /\ idx <= Len(moves_regular)
    /\ MoverMoveStep(moves_regular[idx][1], moves_regular[idx][2])

\* lines 384-391: "for i, (src, dst) in enumerate(moves_syms, 1)"; idx runs on
\* after the regular moves
MoverMoveSymlink ==
    /\ prog = "mover" /\ pc = "move"
    /\ idx > Len(moves_regular) /\ idx <= Len(moves_regular) + Len(moves_syms)
    /\ MoverMoveStep(moves_syms[idx - Len(moves_regular)][1],
                     moves_syms[idx - Len(moves_regular)][2])

\* lines 400-413: remove_empty_dirs(older_root) unless --keep-empty-dirs
MoverReclaim ==
    /\ prog = "mover" /\ pc = "move"
    /\ idx > Len(moves_regular) + Len(moves_syms)
    /\ IF cfg.keep_empty_dirs
       THEN UNCHANGED <<fs, rmdir_errors>>
       ELSE \E deny \in {{}} \cup {{d} : d \in EmptyDirs(fs, cfg.older_root)} :
              LET r == MoverRemoveEmptyDirs(fs, cfg.older_root, deny)
              IN  /\ fs' = r.fs
                  /\ rmdir_errors' = rmdir_errors + r.errors
    /\ pc' = "done"
    /\ exit_code' = 0
    /\ UNCHANGED <<fs0, prog, cfg, actions, kept, main_hashes, moves_regular,
                   moves_syms, idx, run, move_errors, paths, newest>>

-----------------------------------------------------------------------------
(* The trees and command lines the mover script is started on *)

M == <<<<"m">>>>
O == <<<<"o">>>>
T == <<<<"t">>>>
S == <<<<"s">>>>
N_f == <<"f">>
N_k == <<"k">>
N_l1 == <<"l", " ", "(", "1", ")">>
MISSING == <<<<"n">>>>

Roots(m, o, t, s) ==
    [main_root |-> m, older_root |-> o, dest_root |-> t, symlinks_dest |-> s]

\* every proper ancestor of the given roots, as directories
AncestorDirs(rs) ==
    UNION {{<<SubSeq(r, 1, k), DirEntry>> : k \in 1..(Len(r) - 1)} : r \in rs}

\* the three ways the script is run: preview, --apply, --apply --keep-empty-dirs
Flags ==
    {[apply |-> FALSE, keep_empty_dirs |-> FALSE],
     [apply |-> TRUE, keep_empty_dirs |-> FALSE],
     [apply |-> TRUE, keep_empty_dirs |-> TRUE]}

WithFlags(r, fl) ==
    [main_root |-> r.main_root, older_root |-> r.older_root,
     dest_root |-> r.dest_root, symlinks_dest |-> r.symlinks_dest,
     apply |-> fl.apply, keep_empty_dirs |-> fl.keep_empty_dirs]

\* the current tree: empty, one regular file, or one link to older/a.t
MainOpts(r) ==
    { {}, {<<r.main_root \o <<N_f>>, FileEntry(10, "A", 0)>>},
      {<<r.main_root \o <<N_k>>, LinkEntry(11, r.older_root \o <<N_a>>)>>} }

\* the older tree: a.t, "a (1).t", d/a.t, the link l to a.t (a file, or
\* dangling) or to d (a directory, or dangling), and the link "l (1)" to the
\* path of that name in the symlink destination
OlderOpts(r, Da, Da1, Dda, Ltargets, L1targets) ==
    { { <<r.older_root \o <<N_a>>, ea>>,
        <<r.older_root \o <<N_a1>>, ea1>>,
        <<r.older_root \o <<N_d>>, IF eda.kind = "none" THEN NoEntry ELSE DirEntry>>,
        <<r.older_root \o <<N_d, N_a>>, eda>>,
        <<r.older_root \o <<N_l>>, el>>,
        <<r.older_root \o <<N_l1>>, el1>> } :
        ea \in FileOpts(1, Da, {0}),
        ea1 \in FileOpts(2, Da1, {0}),
        eda \in FileOpts(3, Dda, {0}),
        el \in {NoEntry} \cup {LinkEntry(4, r.older_root \o <<n>>) : n \in Ltargets},
        el1 \in {NoEntry} \cup {LinkEntry(5, r.symlinks_dest \o <<n>>) : n \in L1targets} }

\* the regular-file destination before the run: missing, or holding a.t
DestOpts(r) ==
    { {}, {<<r.dest_root, DirEntry>>,
           <<r.dest_root \o <<N_a>>, FileEntry(6, "A", 0)>>} }

\* the symlink destination before the run: missing, or holding l, a dangling
\* link or a regular file
SymDestOpts(r) ==
    { {}, {<<r.symlinks_dest, DirEntry>>,
           <<r.symlinks_dest \o <<N_l>>, LinkEntry(7, MISSING)>>},
          {<<r.symlinks_dest, DirEntry>>,
           <<r.symlinks_dest \o <<N_l>>, FileEntry(7, "A", 0)>>} }

\* both destinations missing, or both present and empty
EmptyDestOpts(r) ==
    { {}, {<<r.dest_root, DirEntry>>, <<r.symlinks_dest, DirEntry>>} }

Base(r) ==
    {<<r.main_root, DirEntry>>, <<r.older_root, DirEntry>>}
    \cup AncestorDirs({r.main_root, r.older_root, r.dest_root, r.symlinks_dest})

\* four separate roots
PlainRoots == Roots(M, O, T, S)
\* a destination inside the older tree, or one tree inside the other
NestedRoots ==
    {Roots(M, O, O \o <<<<"t">>>>, S), Roots(M, O, T, O \o <<<<"s">>>>),
     Roots(O \o <<<<"m">>>>, O, T, S), Roots(M, M \o <<<<"o">>>>, T, S)}
\* command lines main() rejects: a root missing or a regular file, the two
\* roots identical, a destination inside the current tree
InvalidRoots ==
    {Roots(MISSING, O, T, S), Roots(M, MISSING, T, S),
     Roots(O \o <<N_a>>, O, T, S), Roots(M, O \o <<N_a>>, T, S),
     Roots(O, O, T, S),
     Roots(M, O, M \o <<<<"t">>>>, S), Roots(M, O, T, M \o <<<<"s">>>>)}

InitMover ==
    /\ prog = "mover"
    /\ pc = "start"
    /\ \/ \E fl \in Flags, mo \in MainOpts(PlainRoots),
             ol \in OlderOpts(PlainRoots, Digests, {"B"}, {"B"}, {N_a, N_d}, {N_l1}),
             de \in DestOpts(PlainRoots), sd \in SymDestOpts(PlainRoots) :
            /\ cfg = WithFlags(PlainRoots, fl)
            /\ fs = MkFs(Base(PlainRoots) \cup mo \cup ol \cup de \cup sd)
       \/ \E r \in NestedRoots, fl \in Flags :
          \E ol \in OlderOpts(r, Digests, {}, {"B"}, {N_a}, {}),
             de \in EmptyDestOpts(r) :
            /\ cfg = WithFlags(r, fl)
            /\ fs = MkFs(Base(r) \cup ol \cup de
                         \cup {<<r.main_root \o <<N_f>>, FileEntry(10, "A", 0)>>,
                               <<r.main_root \o <<N_k>>, LinkEntry(11, MISSING)>>})
       \/ \E r \in InvalidRoots, fl \in Flags :
          \E de \in EmptyDestOpts(r) :
            /\ cfg = WithFlags(r, fl)
            /\ fs = MkFs({<<M, DirEntry>>, <<O, DirEntry>>,
                          <<M \o <<N_f>>, FileEntry(10, "A", 0)>>,
                          <<O \o <<N_a>>, FileEntry(1, "B", 0)>>} \cup de)
    /\ fs0 = fs
    /\ actions = <<>> /\ kept = <<>>
    /\ main_hashes = {} /\ moves_regular = <<>> /\ moves_syms = <<>>
    /\ idx = 1 /\ run = 1 /\ exit_code = -1
    /\ move_errors = 0 /\ rmdir_errors = 0
    /\ paths = <<>> /\ newest = <<>>

NextMover ==
    MoverStart \/ MoverPlan \/ MoverMoveRegular \/ MoverMoveSymlink \/ MoverReclaim

SpecMover == InitMover /\ [][NextMover]_vars

\* every entry sits in a real directory: no path of the model runs through a link
WellFormed ==
    \A p \in DOMAIN fs : LStat(fs, Parent(p)).kind = "dir"

-----------------------------------------------------------------------------
(* The survivor choice on its own: lines 118-131 of the dedup script applied *)
(* to one group of content-identical files, given in any walk order          *)

SelectPool == {ROOT \o <<N_a>>, ROOT \o <<N_b>>, ROOT \o <<N_a1>>, ROOT \o <<N_d, N_a>>}

SelectTrees ==
    { MkFs({<<ROOT, DirEntry>>, <<ROOT \o <<N_d>>, DirEntry>>,
            <<ROOT \o <<N_a>>, ea>>, <<ROOT \o <<N_b>>, eb>>,
            <<ROOT \o <<N_a1>>, ea1>>, <<ROOT \o <<N_d, N_a>>, eda>>}) :
        ea \in FileOpts(1, {"A"}, Mtimes), eb \in FileOpts(2, {"A"}, Mtimes),
        ea1 \in FileOpts(3, {"A"}, Mtimes), eda \in FileOpts(4, {"A"}, Mtimes) }

InitSelect ==
    /\ prog = "select"
    /\ pc = "start"
    /\ fs \in SelectTrees
    /\ paths \in Perms({p \in SelectPool : LStat(fs, p).kind = "file"})
    /\ Len(paths) > 1
    /\ cfg = [main_dir |-> ROOT, dry_run |-> TRUE]
    /\ fs0 = fs
    /\ actions = <<>> /\ kept = <<>>
    /\ main_hashes = {} /\ moves_regular = <<>> /\ moves_syms = <<>>
    /\ idx = 1 /\ run = 1 /\ exit_code = -1
    /\ move_errors = 0 /\ rmdir_errors = 0
    /\ newest = <<>>

\* lines 118-139 for the group `paths`: the survivor, and one planned move for
\* every other member
Select ==
    /\ prog = "select" /\ pc = "start"
    /\ newest' = Newest(fs, paths)
    /\ kept' = <<Newest(fs, paths)>>
    /\ actions' = PlanMembers([fs |-> fs, actions |-> <<>>, crashed |-> FALSE],
                              cfg.main_dir, TRUE, paths, Newest(fs, paths)).actions
    /\ pc' = "done"
    /\ UNCHANGED <<fs, fs0, prog, cfg, main_hashes, moves_regular, moves_syms,
                   idx, run, exit_code, move_errors, rmdir_errors, paths>>

NextSelect == Select

SpecSelect == InitSelect /\ [][NextSelect]_vars

-----------------------------------------------------------------------------
(* Both scripts side by side: a run of either one *)

InitBoth == InitDedup \/ InitMover

NextBoth == NextDedup \/ NextMover

SpecBoth == InitBoth /\ [][NextBoth]_vars

-----------------------------------------------------------------------------
(* Vocabulary of the properties *)

\* the regular files (not links) below root
RegularUnder(f, root) ==
    {p \in DOMAIN f : IsPrefix(root, p) /\ p # root /\ f[p].kind = "file"}
\* the symbolic links below root
LinksUnder(f, root) ==
    {p \in DOMAIN f : IsPrefix(root, p) /\ p # root /\ f[p].kind = "link"}
\* the sources of a plan, and how often p is one
Sources(plan) == {plan[i][1] : i \in DOMAIN plan}
TimesPlanned(plan, p) == Cardinality({i \in DOMAIN plan : plan[i][1] = p})
\* name is base, or base with " (n)" put before its extension
IsVariantOf(name, base) ==
    \/ name = base
    \/ \E n \in 1..9 : name = Disambiguated(Stem(base), n, Suffix(base))

-----------------------------------------------------------------------------
(* C4 *)

MoverPlanned == prog = "mover" /\ pc \in {"move", "done"}

-----------------------------------------------------------------------------
(* C5 *)

SelectDone == prog = "select" /\ pc = "done"
Members == {paths[i] : i \in DOMAIN paths}
GroupMaxMtime ==
    CHOOSE m \in {fs[p].mtime : p \in Members} : \A p \in Members : fs[p].mtime <= m
\* str(p) is shorter than str(q), or as long and smaller
ShorterOrSmaller(p, q) ==
    \/ Len(PathStr(p)) < Len(PathStr(q))
    \/ Len(PathStr(p)) = Len(PathStr(q)) /\ StrLess(PathStr(p), PathStr(q))

\* exactly one member is the survivor, every other member is planned once,
\* and every walk order of the same members gives the same survivor
OneSurvivorAnyOrder ==
    /\ newest \in Members
    /\ Len(actions) = Len(paths) - 1
    /\ Sources(actions) = Members \ {newest}
    /\ \A o \in Perms(Members) : Newest(fs, o) = newest

\* C5 as claimed (survivor determinism): the survivor has the maximum
\* modification time, and among the members that share that maximum it has
\* the shortest path string, the lexicographically smallest among equal
\* lengths; one survivor, whatever the walk order.
C5_SurvivorHasMaxMtime ==
    SelectDone =>
      /\ OneSurvivorAnyOrder
      /\ fs[newest].mtime = GroupMaxMtime
      /\ \A q \in Members \ {newest} :
            fs[q].mtime = GroupMaxMtime => ShorterOrSmaller(newest, q)

\* C5 as amended: the survivor is the member with the shortest path string
\* (the lexicographically smallest among equal lengths) among the members
\* whose modification time is less than 1e-6 s below the maximum, so it need
\* not hold the maximum itself; one survivor, whatever the walk order.
C5_SurvivorWithinEpsilon ==
    SelectDone =>
      /\ OneSurvivorAnyOrder
      /\ GroupMaxMtime - fs[newest].mtime < EPS_TICKS
      /\ \A q \in Members \ {newest} :
            GroupMaxMtime - fs[q].mtime < EPS_TICKS => ShorterOrSmaller(newest, q)

\* a group of three, two of them sharing the maximum, where the tie-break
\* decides the survivor
C5_Witness ==
    /\ SelectDone
    /\ Len(paths) >= 3
    /\ Cardinality({p \in Members : fs[p].mtime = GroupMaxMtime}) = 2
    /\ newest # paths[1]
    /\ \E q \in Members : fs[q].mtime = GroupMaxMtime /\ ShorterOrSmaller(newest, q)

-----------------------------------------------------------------------------
(* C1 *)

\* C1 (collision safety): no step of a run replaces an entry that exists:
\* every path that holds an entry before and after a step holds the same
\* entry.  (Moves only take entries away from their sources; an entry that
\* changes under a path was overwritten.)
C1_NoEntryReplaced ==
    [][\A q \in DOMAIN fs \cap DOMAIN fs' : fs'[q] = fs[q]]_vars

\* C1, for regular files alone: no step of a run puts another entry at a path
\* that holds a regular file.
C1_NoFileReplaced ==
    [][\A q \in DOMAIN fs \cap DOMAIN fs' :
          fs[q].kind = "file" => fs'[q] = fs[q]]_vars

-----------------------------------------------------------------------------
(* C2 *)

DedupApplied == prog = "dedup" /\ ~cfg.dry_run
\* the members of the content groups of the run: the walked names that are
\* files, plain or through a link
GroupMembers ==
    {p \in DOMAIN fs0 :
        /\ IsPrefix(cfg.main_dir, p)
        /\ ~IsPrefix(DuplicatesDir(cfg.main_dir), p)
        /\ fs0[p].kind \in {"file", "link"}
        /\ IsFile(fs0, p)}
Group(d) == {p \in GroupMembers : Stat(fs0, p).digest = d}
StillInPlace(p) == LStat(fs, p).id = fs0[p].id
\* q lies under the quarantine directory at p's path relative to the root, or
\* at a disambiguated variant of it
InQuarantineFor(q, p) ==
    LET want == DuplicatesDir(cfg.main_dir) \o RelativeTo(p, cfg.main_dir)
    IN  Parent(q) = Parent(want) /\ IsVariantOf(BaseName(q), BaseName(want))
NonDirs(f) == {p \in DOMAIN f : f[p].kind # "dir"}

\* C2 (conservation, dedup): after a first applied run in which no move
\* raised, every content group has exactly one member left in place, every
\* other member is under the quarantine directory at its relative path or a
\* disambiguated variant, and the tree holds as many files as before.
C2_Conservation ==
    (DedupApplied /\ run = 1 /\ pc = "done" /\ move_errors = 0) =>
      /\ \A d \in Digests :
           Group(d) # {} =>
             /\ Cardinality({p \in Group(d) : StillInPlace(p)}) = 1
             /\ \A p \in Group(d) :
                  StillInPlace(p) \/ \E q \in DOMAIN fs :
                      fs[q].id = fs0[p].id /\ InQuarantineFor(q, p)
      /\ Cardinality(NonDirs(fs)) = Cardinality(NonDirs(fs0))

-----------------------------------------------------------------------------
(* C3 *)

\* C3 (never lose a unique file, mover): after an applied run, whichever
\* moves failed, every digest held before the run by a regular file of the
\* older tree or of the regular-file destination is still held by a regular
\* file of the older tree, the current tree or the destination.
C3_NoDigestLost ==
    (prog = "mover" /\ pc = "done" /\ cfg.apply) =>
      \A d \in {fs0[p].digest : p \in RegularUnder(fs0, cfg.older_root)
                                   \cup RegularUnder(fs0, cfg.dest_root)} :
        \E p \in RegularUnder(fs, cfg.older_root) \cup RegularUnder(fs, cfg.main_root)
                 \cup RegularUnder(fs, cfg.dest_root) : fs[p].digest = d

-----------------------------------------------------------------------------
(* C6 *)

\* the symlink plan holds p once, bound for the symlink destination at p's
\* relative path (or, when that path is taken, a disambiguated variant of
\* it), and the regular-file plan does not hold p
LinkPlanned(p) ==
    LET want == cfg.symlinks_dest \o RelativeTo(p, cfg.older_root)
    IN  /\ TimesPlanned(moves_syms, p) = 1
        /\ p \notin Sources(moves_regular)
        /\ \A i \in DOMAIN moves_syms :
              moves_syms[i][1] = p =>
                /\ Parent(moves_syms[i][2]) = Parent(want)
                /\ IsVariantOf(BaseName(moves_syms[i][2]), BaseName(want))

\* this step is an iteration of the symlink loop whose move did not fail
SymlinkMoved ==
    /\ prog = "mover" /\ pc = "move"
    /\ idx > Len(moves_regular) /\ idx <= Len(moves_regular) + Len(moves_syms)
    /\ idx' = idx + 1
    /\ move_errors' = move_errors

\* C6 (symlink universality, mover): every link below the older tree, whatever
\* it points to, is in the symlink plan and not in the regular-file plan; and
\* a symlink move that succeeds takes the link object away from its source,
\* puts it below the symlink destination, and leaves the entry at the path the
\* link points to as it was.
C6_SymlinkUniversality ==
    [][/\ MoverPlanned' => \A p \in LinksUnder(fs0, cfg.older_root) : LinkPlanned(p)'
       /\ SymlinkMoved =>
            LET src == moves_syms[idx - Len(moves_regular)][1]
            IN  /\ src \notin DOMAIN fs'
                /\ \E q \in DOMAIN fs' :
                      IsPrefix(cfg.symlinks_dest, q) /\ fs'[q] = fs[src]
                /\ fs[src].target \in DOMAIN fs =>
                      LStat(fs', fs[src].target) = LStat(fs, fs[src].target)]_vars

-----------------------------------------------------------------------------
(* C7 *)

\* C7 (reclamation safety): when an applied run of the mover has ended, the
\* older root and both destination roots are still directories.
C7_ProtectedDirsKept ==
    (prog = "mover" /\ pc = "done" /\ cfg.apply) =>
      \A r \in {cfg.older_root, cfg.dest_root, cfg.symlinks_dest} :
        LStat(fs, r).kind = "dir"

\* the same for the dedup script: the scanned root and the quarantine root
C7_DedupProtectedDirsKept ==
    (DedupApplied /\ pc = "done") =>
      /\ LStat(fs, cfg.main_dir).kind = "dir"
      /\ LStat(fs, DuplicatesDir(cfg.main_dir)).kind = "dir"

-----------------------------------------------------------------------------
(* C8 *)

\* C8 (dry-run non-mutation): in a run of the mover without --apply the
\* filesystem is at every moment what it was when the run started.
C8_DryRunChangesNothing ==
    (prog = "mover" /\ ~cfg.apply) => fs = fs0

\* the same for the dedup script with --dry-run
C8_DedupDryRunChangesNothing ==
    (prog = "dedup" /\ cfg.dry_run) => fs = fs0

-----------------------------------------------------------------------------
(* C9 *)

\* the command lines the pre-flight checks are there to reject
InvalidConfiguration ==
    \/ ~IsDir(fs0, cfg.main_root)
    \/ ~IsDir(fs0, cfg.older_root)
    \/ cfg.main_root = cfg.older_root
    \/ IsPrefix(cfg.main_root, cfg.dest_root)
    \/ IsPrefix(cfg.main_root, cfg.symlinks_dest)

\* C9 (pre-flight validation, mover): a run on an invalid configuration ends
\* with exit code 2, having scanned nothing and changed nothing.
C9_InvalidConfigurationChangesNothing ==
    (prog = "mover" /\ InvalidConfiguration /\ pc # "start") =>
      /\ pc = "exit" /\ exit_code = 2
      /\ main_hashes = {} /\ moves_regular = <<>> /\ moves_syms = <<>>
      /\ fs = fs0

-----------------------------------------------------------------------------
(* C10 *)

\* C10 (idempotence, dedup): the second of two applied runs, the first having
\* ended with no move failed, plans no relocation.
C10_SecondRunPlansNothing ==
    (DedupApplied /\ run = 2 /\ pc = "move" /\ move_errors = 0) => actions = <<>>

-----------------------------------------------------------------------------
(* C11 *)

\* the run went through its reclaiming pass and no rmdir failed
ReclaimRan ==
    /\ pc = "done" /\ rmdir_errors = 0
    /\ \/ prog = "dedup" /\ ~cfg.dry_run
       \/ prog = "mover" /\ cfg.apply /\ ~cfg.keep_empty_dirs
ReclaimRoot == IF prog = "dedup" THEN cfg.main_dir ELSE cfg.older_root
ProtectedPaths ==
    IF prog = "dedup" THEN {cfg.main_dir, DuplicatesDir(cfg.main_dir)}
    ELSE {cfg.older_root, cfg.dest_root, cfg.symlinks_dest}

\* C11 (reclamation completeness, both scripts): after the reclaiming pass of
\* a run in which no rmdir failed, every directory below the reclaimed root
\* that is not protected holds at least one entry.
C11_NoEmptyDirLeft ==
    ReclaimRan =>
      \A p \in DOMAIN fs :
        (/\ fs[p].kind = "dir"
         /\ IsPrefix(ReclaimRoot, p)
         /\ p \notin ProtectedPaths) => Children(fs, p) # {}

\* the chain c/e, whose only content was the empty leaf e, is gone after the
\* one pass of a dedup run
C11_Witness ==
    /\ ReclaimRan /\ prog = "dedup"
    /\ Children(fs0, ROOT \o <<<<"c">>>>) = {ROOT \o <<<<"c">>, <<"e">>>>}
    /\ Children(fs0, ROOT \o <<<<"c">>, <<"e">>>>) = {}
    /\ ROOT \o <<<<"c">>>> \notin DOMAIN fs
    /\ ROOT \o <<<<"c">>, <<"e">>>> \notin DOMAIN fs

-----------------------------------------------------------------------------
(* C12 *)

\* the run passed the checks of lines 299-321 and is an applied one
MoverValidatedApply ==
    prog = "mover" /\ cfg.apply /\ pc \in {"scan", "move", "done"}
\* the entries of f at and below root
Subtree(f, root) == {<<p, f[p]>> : p \in {q \in DOMAIN f : IsPrefix(root, q)}}

\* C12 (current tree untouched, mover): in an applied run on a configuration
\* that passed validation, the entries at and below the current root are at
\* every moment the ones that were there when the run started.
C12_CurrentTreeUntouched ==
    MoverValidatedApply =>
      Subtree(fs, cfg.main_root) = Subtree(fs0, cfg.main_root)

\* the same when neither of the two trees lies inside the other
C12_DisjointCurrentTreeUntouched ==
    (/\ MoverValidatedApply
     /\ ~IsPrefix(cfg.older_root, cfg.main_root)
     /\ ~IsPrefix(cfg.main_root, cfg.older_root)) =>
      Subtree(fs, cfg.main_root) = Subtree(fs0, cfg.main_root)

====
